---- MODULE Spec2Model ----
(***************************************************************************)
(* Deep-crawl orchestrators of backend/profile_crawler.py                  *)
(* (sequential_deep_crawl, process_result) and backend/minimal_crawler.py  *)
(* (deep_crawl): frontier, visited set, link filtering, strategy-dependent *)
(* insertion, result aggregation, profile lookup and session cleanup.      *)
(* The fetch collaborator (crawler.arun) is the environment: each          *)
(* invocation returns a failure, raises, or succeeds with a list of links. *)
(***************************************************************************)
EXTENDS Integers, Sequences, FiniteSets, TLC

\* ------------------------------------------------------------------ bounds
MaxDepthBound == 2      \* max_depth ranges over 0..MaxDepthBound
MaxPagesBound == 3      \* max_pages ranges over 1..MaxPagesBound

\* deep_crawl counts every attempt, so it needs a budget of four to pop a
\* task it has to skip (seed, /a, /b, then the second copy of /b).
MinPagesBound == MaxPagesBound + 1

MaxHrefLen == 4         \* hrefs given to the normalization have 1..MaxHrefLen characters

MaxDocLinks == 3        \* the search page lists 0..MaxDocLinks document links
MaxDocumentsBound == 3  \* max_documents ranges over 0..MaxDocumentsBound

\* ------------------------------------------------------------------- URLs
\* A URL is the 5-tuple urlparse yields (params are never used).
Url(s, n, p, q, f) == [scheme |-> s, netloc |-> n, path |-> p, query |-> q, frag |-> f]

\* An href as it appears in a link record; valid = FALSE stands for an href
\* on which urlsplit raises ValueError (e.g. "http://[").
Href(s, n, p, q, f, v) ==
    [scheme |-> s, netloc |-> n, path |-> p, query |-> q, frag |-> f, valid |-> v]

SeedUrl == Url("http", "example.com", "/", "", "")

\* Malformed seeds: "not-a-url" parses as a bare path; on "http://[" urlparse
\* raises ValueError (Invalid IPv6 URL).
NoSchemeSeed == Url("", "", "not-a-url", "", "")
BracketSeed == Url("http", "[", "", "", "")

Seeds == {SeedUrl, NoSchemeSeed, BracketSeed}

UrlParseRaises(u) == u.netloc = "["

\* The URLs the fetch collaborator can load at all.
Fetchable(u) == u.scheme = "http" /\ u.netloc # "" /\ ~UrlParseRaises(u)

HrefIsEmpty(h) ==
    h.valid /\ h.scheme = "" /\ h.netloc = "" /\ h.path = "" /\ h.query = "" /\ h.frag = ""

\* urllib.parse.urljoin(base, href) for valid hrefs whose path, when
\* present, is absolute.
urljoin(base, h) ==
    IF HrefIsEmpty(h) THEN base
    ELSE IF h.scheme # "" /\ h.scheme # base.scheme
         THEN Url(h.scheme, h.netloc, h.path, h.query, h.frag)
    ELSE IF h.netloc # ""
         THEN Url(base.scheme, h.netloc, h.path, h.query, h.frag)
    ELSE IF h.path = ""
         THEN Url(base.scheme, base.netloc, base.path,
                  IF h.query # "" THEN h.query ELSE base.query, h.frag)
    ELSE Url(base.scheme, base.netloc, h.path, h.query, h.frag)

\* urlparse(url).netloc
netloc(u) == u.netloc

\* ------------------------------------------------------------ link texts
\* str.lower() on the words that occur in keywords and link texts.
Lower(w) ==
    CASE w = "Guide" -> "guide"
      [] w = "GUIDE" -> "guide"
      [] w = "Random" -> "random"
      [] w = "API" -> "api"
      [] w = "X" -> "x"
      [] OTHER -> w

LowerAll(ws) == [i \in 1..Len(ws) |-> Lower(ws[i])]

Words(ws) == {ws[i] : i \in 1..Len(ws)}

\* link_score = sum(1 for k in keywords if k.lower() in link_text), with
\* the text already lowered; a text is a sequence of words and "in" is
\* word membership.
LinkScore(kws, text) ==
    Cardinality({i \in 1..Len(kws) : Lower(kws[i]) \in Words(LowerAll(text))})

\* The links a fetched page may return: href plus anchor text.
Link(h, t) == [href |-> h, text |-> t]

LinkA == Link(Href("", "", "/a", "", "", TRUE), <<"Guide", "to", "X">>)
LinkB == Link(Href("", "", "/b", "", "", TRUE), <<"Random">>)
LinkC == Link(Href("", "", "/c", "", "", TRUE), <<"API", "GUIDE">>)
LinkOther == Link(Href("http", "other.com", "/x", "", "", TRUE), <<"Guide", "elsewhere">>)
LinkBad == Link(Href("http", "[", "", "", "", FALSE), <<"Random">>)
LinkFrag == Link(Href("", "", "", "", "frag", TRUE), <<"Top">>)                \* "#frag"
LinkScript == Link(Href("javascript", "", "void(0)", "", "", TRUE), <<"Menu">>)  \* "javascript:void(0)"

\* ------------------------------------------------------------------ state
VARIABLES
    program,            \* "sequential_deep_crawl" | "deep_crawl" (minimal_crawler)
    url,                \* the seed argument
    profile_name,       \* "" when no profile is asked for
    strategy,           \* "bfs" | "dfs" | "best-first"
    max_depth,
    max_pages,
    keywords,           \* sequence of keywords, <<>> when None or empty
    patterns,           \* sequence of glob patterns, <<>> when None or empty
    domain_restrict,
    delay,              \* seconds to sleep between two requests, 0 for none
    url_queue,          \* the frontier: sequence of tasks
    visited_urls,
    pages_crawled,
    successful_pages,
    failed_pages,
    pages_by_depth,
    result,             \* the last response of crawler.arun
    fetch_log,          \* history: one entry per crawler.arun invocation
    sleeps,             \* history: number of asyncio.sleep(delay) calls
    profile_path,       \* "unset" before get_profile_path, then "" or a path
    session,            \* "none" | "open" | "killed": the reused browser tab
    kill_attempts,      \* history: number of kill_session calls
    report,             \* TRUE once the results are saved / summarised
    base,               \* normalization alone: the URL of the page, as a string
    href,               \* normalization alone: the href of an anchor, as a string
    normalized,         \* normalization alone: the results of applying it once, twice
    document_links,     \* SimpleSaudiCrawler.crawl: the links extracted from the search page
    max_documents,      \* SimpleSaudiCrawler.crawl: its argument
    successful,         \* SimpleSaudiCrawler.crawl: the count it reports
    processed,          \* history: one entry per process_document call
    pc                  \* "start", "loop" while in the while loop, "done" after
                        \* it; "aborted", "raised", "escaped", "stream", "batch"
                        \* for the other ways deep_crawl ends

vars == <<program, url, profile_name, strategy, max_depth, max_pages, keywords, patterns,
          domain_restrict, delay, url_queue, visited_urls, pages_crawled, successful_pages,
          failed_pages, pages_by_depth, result, fetch_log, sleeps, profile_path, session,
          kill_attempts, report, base, href, normalized, document_links, max_documents,
          successful, processed, pc>>

\* ------------------------------------------------------- pattern filter
\* str(url) as urlunparse prints it, cut into the pieces patterns refer to.
UrlPieces(u) ==
    <<u.scheme, ":">>
    \o (IF u.netloc # "" THEN <<"//", u.netloc>> ELSE <<>>)
    \o (IF u.path # "" THEN <<u.path>> ELSE <<>>)
    \o (IF u.query # "" THEN <<"?", u.query>> ELSE <<>>)
    \o (IF u.frag # "" THEN <<"#", u.frag>> ELSE <<>>)

\* re.compile(pattern.replace('*', '.*')).match(s): anchored at the start
\* of s only; "*" matches any run of pieces.
RECURSIVE ReMatch(_, _)
ReMatch(p, s) ==
    IF p = <<>> THEN TRUE
    ELSE IF Head(p) = "*"
         THEN \E k \in 0..Len(s) : ReMatch(Tail(p), SubSeq(s, k + 1, Len(s)))
    ELSE s # <<>> /\ Head(s) = Head(p) /\ ReMatch(Tail(p), Tail(s))

PatternA == <<"*", "/a", "*">>          \* "*/a*"

\* Variant of MatchesPattern that lets every URL through.
MatchesPatternAlways(pats, u) == TRUE

\* compiled_patterns empty, or any(p.match(absolute_url) ...)
MatchesPattern(pats, u) ==
    pats = <<>> \/ \E i \in 1..Len(pats) : ReMatch(pats[i], UrlPieces(u))

\* ------------------------------------------------------------ page content
\* What the site serves: markdown and title of each page, fixed per URL.
PageMarkdown(u) ==
    CASE u.path = "/a" -> <<"Guide", "to", "X", "guide">>
      [] u.path = "/c" -> <<"API", "Random">>
      [] u.path = "/b" -> <<"Random">>
      [] OTHER -> <<>>

PageTitle(u) == IF u.path = "/a" THEN "Guide" ELSE "No title"

\* text_lower.count(keyword.lower())
Count(text, w) == Cardinality({i \in 1..Len(text) : text[i] = w})

RECURSIVE SumCounts(_, _, _)
SumCounts(kws, text, i) ==
    IF i > Len(kws) THEN 0
    ELSE Count(text, Lower(kws[i])) + SumCounts(kws, text, i + 1)

\* score of a fetched page; None when the 'score' key is never set
PageScore(kws, u) ==
    IF kws # <<>> /\ PageMarkdown(u) # <<>>
    THEN SumCounts(kws, LowerAll(PageMarkdown(u)), 1)
    ELSE 0

\* ------------------------------------------------------- fetch responses
Links(int, ext) == [internal |-> int, external |-> ext]

Response(ok, int, ext) == [success |-> ok, links |-> Links(int, ext)]

NoResult == Response(FALSE, <<>>, <<>>)

\* The ten discoverable links of the one-page scenario: /p1 .. /p10.
TenPaths == <<"/p1", "/p2", "/p3", "/p4", "/p5", "/p6", "/p7", "/p8", "/p9", "/p10">>

TenLinks ==
    [i \in 1..Len(TenPaths) |->
        Link(Href("", "", TenPaths[i], "", "", TRUE),
             IF i % 2 = 0 THEN <<"Guide", "to", "X">> ELSE <<"Random">>)]

\* Successful responses of crawler.arun: every list of at most two links
\* over the links to /a and /b, and lists with a third page, an off-site link
\* (filed by the collaborator as external, or as internal), and an href
\* urljoin rejects.
OkResponses ==
    {Response(TRUE, int, <<>>) :
        int \in {<<>>, <<LinkA>>, <<LinkB>>, <<LinkA, LinkA>>, <<LinkA, LinkB>>,
                 <<LinkB, LinkA>>, <<LinkB, LinkB>>}}
    \cup {Response(TRUE, <<LinkC>>, <<LinkOther>>),
          Response(TRUE, <<LinkA, LinkC>>, <<>>),
          Response(TRUE, <<LinkOther, LinkB>>, <<>>),
          Response(TRUE, <<LinkA, LinkBad>>, <<>>)}

\* The five-link scenario: deep_crawl("http://example.com/", max_depth=1,
\* max_pages=5) with every other parameter at its default; the seed page
\* lists /a, /b, http://other.com/x, #frag and javascript:void(0).
FiveLinkScenario ==
    [url |-> SeedUrl, max_depth |-> 1, max_pages |-> 5, strategy |-> "bfs",
     domain_restrict |-> TRUE]

FiveResponse == Response(TRUE, <<LinkA, LinkB, LinkFrag, LinkScript>>, <<LinkOther>>)

\* A page at max_depth has its links ignored: it lists nothing or /a and /b.
UnreadResponses == {Response(TRUE, <<>>, <<>>), Response(TRUE, <<LinkA, LinkB>>, <<>>)}

\* The responses the page of task t may give: none for a URL that cannot be
\* loaded; the ten-link page is the seed of a run with max_pages = 1, the
\* five-link page the seed of a run with the budget of the five-link
\* scenario, whose other pages list nothing.
ResponsesFor(t, budget) ==
    IF ~Fetchable(t.url) THEN {}
    ELSE IF budget = FiveLinkScenario.max_pages
         THEN (IF t.depth = 0 THEN {FiveResponse} ELSE {Response(TRUE, <<>>, <<>>)})
    ELSE (IF t.depth >= max_depth THEN UnreadResponses ELSE OkResponses) \cup
         (IF t.depth = 0 /\ budget = 1 THEN {Response(TRUE, TenLinks, <<>>)} ELSE {})

\* ------------------------------------------------------------------ tasks
\* Variant of Task that numbers depths two levels too deep.
TaskTwoDeeper(u, d, par, idx) == [url |-> u, depth |-> d + 2, par |-> par, idx |-> idx]

\* (url, depth) tuples of the queue; par and idx are history: the number of
\* the fetch that discovered the task and its position in that page's list.
Task(u, d, par, idx) == [url |-> u, depth |-> d, par |-> par, idx |-> idx]

\* Variant of LoopCond that forgets the page budget.
LoopCondQueueOnly == url_queue # <<>>

\* while url_queue and pages_crawled < max_pages
LoopCond == url_queue # <<>> /\ pages_crawled < max_pages

\* Variant of Skipped that forgets the visited check.
SkippedDepthOnly(t) == t.depth > max_depth

\* Variant of Skipped that also drops a popped task no pattern matches.
SkippedOrUnmatched(t) ==
    t.url \in visited_urls \/ t.depth > max_depth \/ ~MatchesPattern(patterns, t.url)

\* if current_url in visited_urls or current_depth > max_depth: continue
Skipped(t) == t.url \in visited_urls \/ t.depth > max_depth

\* base_domain = urlparse(url).netloc if domain_restrict else None
base_domain == IF domain_restrict THEN netloc(url) ELSE ""

\* Variant of PassesDomain that lets every host through.
PassesDomainAlways(u) == TRUE

\* the domain filter of a discovered link
PassesDomain(u) ==
    ~(domain_restrict /\ base_domain # "") \/ netloc(u) = base_domain

\* Variant of Insert whose bfs branch inserts at the head.
InsertBfsAtHead(strat, q, t, link) ==
    IF strat = "bfs" THEN <<t>> \o q
    ELSE IF strat = "dfs" THEN <<t>> \o q
    ELSE IF strat = "best-first" /\ keywords # <<>>
         THEN IF LinkScore(keywords, link.text) > 0
              THEN <<t>> \o q
              ELSE Append(q, t)
    ELSE q

\* Variant of Insert whose dfs branch appends.
InsertDfsAtTail(strat, q, t, link) ==
    IF strat = "bfs" THEN Append(q, t)
    ELSE IF strat = "dfs" THEN Append(q, t)
    ELSE IF strat = "best-first" /\ keywords # <<>>
         THEN IF LinkScore(keywords, link.text) > 0
              THEN <<t>> \o q
              ELSE Append(q, t)
    ELSE q

\* Variant of Insert whose dfs branch inserts behind the head of the queue.
InsertDfsBehindHead(strat, q, t, link) ==
    IF strat = "bfs" THEN Append(q, t)
    ELSE IF strat = "dfs"
         THEN (IF q = <<>> THEN <<t>> ELSE <<Head(q), t>> \o Tail(q))
    ELSE IF strat = "best-first" /\ keywords # <<>>
         THEN IF LinkScore(keywords, link.text) > 0
              THEN <<t>> \o q
              ELSE Append(q, t)
    ELSE q

\* Variant of Insert whose best-first branch appends whatever the score.
InsertBestFirstAtTail(strat, q, t, link) ==
    IF strat = "bfs" THEN Append(q, t)
    ELSE IF strat = "dfs" THEN <<t>> \o q
    ELSE IF strat = "best-first" /\ keywords # <<>>
         THEN Append(q, t)
    ELSE q

\* "Add to queue based on strategy": the if/elif chain, which has no else.
Insert(strat, q, t, link) ==
    IF strat = "bfs" THEN Append(q, t)
    ELSE IF strat = "dfs" THEN <<t>> \o q
    ELSE IF strat = "best-first" /\ keywords # <<>>
         THEN IF LinkScore(keywords, link.text) > 0
              THEN <<t>> \o q
              ELSE Append(q, t)
    ELSE q

\* all_links = internal_links (+ external_links unless domain_restrict)
AllLinks(r) ==
    IF domain_restrict THEN r.links.internal
    ELSE r.links.internal \o r.links.external

\* The "for link_data in all_links" loop under strategy strat, from link i
\* on.  cur is the page being processed (url, depth, number of its fetch,
\* visited set at that time).  Yields the queue and whether urljoin raised.
RECURSIVE QueueLinks(_, _, _, _, _)
QueueLinks(strat, links, i, q, cur) ==
    IF i > Len(links) THEN [queue |-> q, raised |-> FALSE]
    ELSE LET link == links[i]
             abs == urljoin(cur.url, link.href)
         IN IF HrefIsEmpty(link.href) THEN QueueLinks(strat, links, i + 1, q, cur)
            ELSE IF ~link.href.valid THEN [queue |-> q, raised |-> TRUE]
            ELSE IF abs \in cur.visited THEN QueueLinks(strat, links, i + 1, q, cur)
            ELSE IF ~PassesDomain(abs) THEN QueueLinks(strat, links, i + 1, q, cur)
            ELSE IF ~MatchesPattern(patterns, abs)
                 THEN QueueLinks(strat, links, i + 1, q, cur)
            ELSE QueueLinks(strat, links, i + 1,
                            Insert(strat, q, Task(abs, cur.depth + 1, cur.n, i), link),
                            cur)

\* Variant of ExtractsLinks that reads the links of a page at any depth.
ExtractsLinksAtAnyDepth(d) == TRUE

\* if current_depth < max_depth (and result.links): the links are read
ExtractsLinks(d) == d < max_depth

\* Variant of Sleeps that waits after the last task too.
SleepsWhateverTheQueue(q) == delay > 0

\* if delay > 0 and url_queue: await asyncio.sleep(delay)
Sleeps(q) == delay > 0 /\ q # <<>>

\* ---------------------------------------------------------- aggregation
Agg(s, f, p) == [successful_pages |-> s, failed_pages |-> f, pages_by_depth |-> p]

\* Variant of process_result that keeps no record of a failure.
ProcessResultSuccessOnly(r, agg) ==
    IF r.success
    THEN LET e == [url |-> r.url, title |-> r.title, score |-> r.score]
             p == agg.pages_by_depth
         IN Agg(Append(agg.successful_pages, [url |-> r.url, depth |-> r.depth]),
                agg.failed_pages,
                IF r.depth \in DOMAIN p
                THEN [p EXCEPT ![r.depth] = Append(@, e)]
                ELSE p @@ (r.depth :> <<e>>))
    ELSE agg

\* Variant of process_result that files a failure by depth as well.
ProcessResultFilesFailures(r, agg) ==
    LET e == [url |-> r.url, title |-> r.title, score |-> r.score]
        p == agg.pages_by_depth
        filed == IF r.depth \in DOMAIN p
                 THEN [p EXCEPT ![r.depth] = Append(@, e)]
                 ELSE p @@ (r.depth :> <<e>>)
    IN IF r.success
       THEN Agg(Append(agg.successful_pages, [url |-> r.url, depth |-> r.depth]),
                agg.failed_pages, filed)
       ELSE Agg(agg.successful_pages,
                Append(agg.failed_pages,
                       [url |-> r.url, error |-> r.error, depth |-> r.depth]),
                filed)

\* process_result(result, successful_pages, failed_pages, pages_by_depth)
process_result(r, agg) ==
    IF r.success
    THEN LET e == [url |-> r.url, title |-> r.title, score |-> r.score]
             p == agg.pages_by_depth
         IN Agg(Append(agg.successful_pages, [url |-> r.url, depth |-> r.depth]),
                agg.failed_pages,
                IF r.depth \in DOMAIN p
                THEN [p EXCEPT ![r.depth] = Append(@, e)]
                ELSE p @@ (r.depth :> <<e>>))
    ELSE Agg(agg.successful_pages,
             Append(agg.failed_pages,
                    [url |-> r.url, error |-> r.error, depth |-> r.depth]),
             agg.pages_by_depth)

\* Variant of PageResult that files a page one level deeper than its task.
PageResultDeeper(u, d, ok, err) ==
    [url |-> u, depth |-> d + 1, success |-> ok, title |-> PageTitle(u),
     score |-> PageScore(keywords, u), error |-> err]

\* The result object handed to process_result: result.metadata of a fetched
\* page, or the failed_result built for current_url.
PageResult(u, d, ok, err) ==
    [url |-> u, depth |-> d, success |-> ok, title |-> PageTitle(u),
     score |-> PageScore(keywords, u), error |-> err]

CurAgg == Agg(successful_pages, failed_pages, pages_by_depth)

LogEntry(t, outcome) ==
    [url |-> t.url, depth |-> t.depth, par |-> t.par, idx |-> t.idx, outcome |-> outcome]

\* ------------------------------------------------------------------- Init
Strategies == {"bfs", "dfs", "best-first"}
KeywordChoices == {<<>>, <<"Guide">>}
PatternChoices == {<<>>, <<PatternA>>}

\* The arguments of a run: any combination within the bounds, or those of
\* the five-link scenario.
InitArgs ==
    \/ /\ url \in Seeds
       /\ max_depth \in 0..MaxDepthBound
       /\ IF program = "sequential_deep_crawl"
          THEN /\ max_pages \in 1..MaxPagesBound
               /\ strategy \in Strategies
               /\ keywords \in KeywordChoices
               /\ patterns \in PatternChoices
               /\ domain_restrict \in BOOLEAN
          ELSE \* minimal_crawler.deep_crawl has none of these parameters: it
               \* always appends, never scores, and always restricts the domain
               /\ max_pages \in 1..MinPagesBound
               /\ strategy = "bfs"
               /\ keywords = <<>>
               /\ patterns = <<>>
               /\ domain_restrict = TRUE
    \/ /\ url = FiveLinkScenario.url
       /\ max_depth = FiveLinkScenario.max_depth
       /\ max_pages = FiveLinkScenario.max_pages
       /\ strategy = FiveLinkScenario.strategy
       /\ keywords = <<>>
       /\ patterns = <<>>
       /\ domain_restrict = FiveLinkScenario.domain_restrict

ProfileNames == {"", "work"}

\* SimpleSaudiCrawler.crawl is not running.
NoDocuments ==
    document_links = <<>> /\ max_documents = 0 /\ successful = 0 /\ processed = <<>>

\* delay: none (the default of sequential_deep_crawl) or one second (the
\* default of minimal_crawler.deep_crawl).
Delays == {0, 1}

Init ==
    /\ program \in {"sequential_deep_crawl", "deep_crawl"}
    /\ profile_name \in ProfileNames
    /\ InitArgs
    \* the delay is varied on the runs that leave keywords and patterns out
    /\ delay \in (IF keywords = <<>> /\ patterns = <<>> THEN Delays ELSE {0})
    /\ sleeps = 0
    /\ url_queue = <<Task(url, 0, 0, 0)>>
    /\ visited_urls = {}
    /\ pages_crawled = 0
    /\ successful_pages = <<>>
    /\ failed_pages = <<>>
    /\ pages_by_depth = <<>>
    /\ result = NoResult
    /\ fetch_log = <<>>
    /\ profile_path = "unset"
    /\ session = "none"
    /\ kill_attempts = 0
    /\ report = FALSE
    /\ base = <<>> /\ href = <<>> /\ normalized = <<>>
    /\ NoDocuments
    /\ pc = "start"

config == <<program, url, profile_name, strategy, max_depth, max_pages, keywords,
            patterns, domain_restrict, delay>>

locals == <<url_queue, visited_urls, pages_crawled, successful_pages, failed_pages,
            pages_by_depth, result, fetch_log, sleeps>>

lifecycle == <<profile_path, session, kill_attempts, report>>

strings == <<base, href, normalized>>

documents == <<document_links, max_documents, successful, processed>>

\* ----------------------------------------------------------- entry steps
\* deep_crawl of profile_crawler.py: with a profile name the profile must be
\* found and the crawl is sequential; without one the stream flag picks the
\* mode of the library crawl.
\* Variant of Dispatch that goes on without the profile it asked for.
DispatchWithoutProfile(pname, path, stream) ==
    IF pname # "" THEN "sequential"
    ELSE IF stream THEN "stream" ELSE "batch"

\* Variant of Dispatch that hands a run with a profile to the library crawl.
DispatchByStream(pname, path, stream) ==
    IF pname # "" /\ path = "" THEN "aborted"
    ELSE IF stream THEN "stream" ELSE "batch"

Dispatch(pname, path, stream) ==
    IF pname # ""
    THEN (IF path = "" THEN "aborted" ELSE "sequential")
    ELSE IF stream THEN "stream" ELSE "batch"

\* get_profile_path(profile_name): a path, or "" (None) when there is none;
\* it is called only when a profile name is given.
ProfilePaths == {"", "path"}

Lookup(pname) == IF pname # "" THEN ProfilePaths ELSE {"unset"}

\* deep_crawl of profile_crawler.py up to the library crawl or, through
\* sequential_deep_crawl, up to its while loop.  urlparse(url) is evaluated
\* only under domain_restrict and raises on a seed it cannot parse.
SeqStart ==
    /\ program = "sequential_deep_crawl" /\ pc = "start"
    /\ \E path \in Lookup(profile_name), stream \in BOOLEAN :
        LET mode == Dispatch(profile_name, path, stream)
            next == IF mode = "aborted" THEN "aborted"
                    ELSE IF domain_restrict /\ UrlParseRaises(url) THEN "raised"
                    ELSE IF mode = "sequential" THEN "loop"
                    ELSE mode
        IN /\ pc' = next
           /\ profile_path' = path
           /\ session' = IF next = "loop" THEN "open" ELSE "none"
    /\ UNCHANGED <<config, strings, documents, locals, kill_attempts, report>>

\* deep_crawl of minimal_crawler.py up to its while loop: profile lookup,
\* output directory, base_domain = urlparse(url).netloc.
MinStart ==
    /\ program = "deep_crawl" /\ pc = "start"
    /\ \E path \in Lookup(profile_name) :
        LET next == IF profile_name # "" /\ path = "" THEN "aborted"
                    ELSE IF UrlParseRaises(url) THEN "raised"
                    ELSE "loop"
        IN /\ pc' = next
           /\ profile_path' = path
           /\ session' = IF next = "loop" THEN "open" ELSE "none"
    /\ UNCHANGED <<config, strings, documents, locals, kill_attempts, report>>

\* ------------------------------------------- sequential_deep_crawl steps
\* Variant of SeqSkip that puts the skipped task back at the end of the queue.
SeqSkipRequeues ==
    /\ program = "sequential_deep_crawl" /\ pc = "loop" /\ LoopCond
    /\ Skipped(Head(url_queue))
    /\ url_queue' = Append(Tail(url_queue), Head(url_queue))
    /\ UNCHANGED <<config, strings, documents, lifecycle, visited_urls, pages_crawled, successful_pages,
                   failed_pages, pages_by_depth, result, fetch_log, sleeps, pc>>

\* Variant of SeqSkip that counts the skipped task as a crawled page.
SeqSkipCounts ==
    /\ program = "sequential_deep_crawl" /\ pc = "loop" /\ LoopCond
    /\ Skipped(Head(url_queue))
    /\ url_queue' = Tail(url_queue)
    /\ pages_crawled' = pages_crawled + 1
    /\ UNCHANGED <<config, strings, documents, lifecycle, visited_urls, successful_pages,
                   failed_pages, pages_by_depth, result, fetch_log, sleeps, pc>>

\* One iteration that pops a task and hits "continue".
SeqSkip ==
    /\ program = "sequential_deep_crawl" /\ pc = "loop" /\ LoopCond
    /\ Skipped(Head(url_queue))
    /\ url_queue' = Tail(url_queue)
    /\ UNCHANGED <<config, strings, documents, lifecycle, visited_urls, pages_crawled, successful_pages,
                   failed_pages, pages_by_depth, result, fetch_log, sleeps, pc>>

SetAgg(agg) ==
    /\ successful_pages' = agg.successful_pages
    /\ failed_pages' = agg.failed_pages
    /\ pages_by_depth' = agg.pages_by_depth

\* One iteration whose crawler.arun returns result.success.
SeqFetchOk ==
    /\ program = "sequential_deep_crawl" /\ pc = "loop" /\ LoopCond
    /\ ~Skipped(Head(url_queue))
    /\ \E r \in ResponsesFor(Head(url_queue), max_pages) :
        LET t == Head(url_queue)
            n == Len(fetch_log) + 1
            cur == [url |-> t.url, depth |-> t.depth, n |-> n,
                    visited |-> visited_urls \cup {t.url}]
            agg1 == process_result(PageResult(t.url, t.depth, TRUE, "none"), CurAgg)
            scan == IF ExtractsLinks(t.depth)
                    THEN QueueLinks(strategy, AllLinks(r), 1, Tail(url_queue), cur)
                    ELSE [queue |-> Tail(url_queue), raised |-> FALSE]
            \* except Exception as e: a second process_result for the page
            agg2 == IF scan.raised
                    THEN process_result(PageResult(t.url, t.depth, FALSE, "exception"), agg1)
                    ELSE agg1
        IN /\ visited_urls' = visited_urls \cup {t.url}
           /\ pages_crawled' = pages_crawled + 1
           /\ result' = r
           /\ fetch_log' = Append(fetch_log, LogEntry(t, "ok"))
           /\ url_queue' = scan.queue
           /\ SetAgg(agg2)
           /\ sleeps' = sleeps + (IF Sleeps(scan.queue) THEN 1 ELSE 0)
    /\ UNCHANGED <<config, strings, documents, lifecycle, pc>>

\* Variant of SeqFetchFailed that counts the failed page against the budget.
SeqFetchFailedCounted ==
    /\ program = "sequential_deep_crawl" /\ pc = "loop" /\ LoopCond
    /\ ~Skipped(Head(url_queue))
    /\ LET t == Head(url_queue)
       IN /\ visited_urls' = visited_urls \cup {t.url}
          /\ pages_crawled' = pages_crawled + 1
          /\ result' = NoResult
          /\ fetch_log' = Append(fetch_log, LogEntry(t, "failed"))
          /\ url_queue' = Tail(url_queue)
          /\ SetAgg(process_result(PageResult(t.url, t.depth, FALSE, "reported"), CurAgg))
          /\ sleeps' = sleeps + (IF Sleeps(Tail(url_queue)) THEN 1 ELSE 0)
    /\ UNCHANGED <<config, strings, documents, lifecycle, pc>>

\* One iteration whose crawler.arun returns a result with success false.
SeqFetchFailed ==
    /\ program = "sequential_deep_crawl" /\ pc = "loop" /\ LoopCond
    /\ ~Skipped(Head(url_queue))
    /\ LET t == Head(url_queue)
       IN /\ visited_urls' = visited_urls \cup {t.url}
          /\ result' = NoResult
          /\ fetch_log' = Append(fetch_log, LogEntry(t, "failed"))
          /\ url_queue' = Tail(url_queue)
          /\ SetAgg(process_result(PageResult(t.url, t.depth, FALSE, "reported"), CurAgg))
          /\ sleeps' = sleeps + (IF Sleeps(Tail(url_queue)) THEN 1 ELSE 0)
    /\ UNCHANGED <<config, strings, documents, lifecycle, pages_crawled, pc>>

\* Variant of SeqFetchRaised without the except clause: the exception of
\* crawler.arun leaves the loop through the finally clause.
SeqRaisedUncaught ==
    /\ program = "sequential_deep_crawl" /\ pc = "loop" /\ LoopCond
    /\ ~Skipped(Head(url_queue))
    /\ LET t == Head(url_queue)
       IN /\ visited_urls' = visited_urls \cup {t.url}
          /\ fetch_log' = Append(fetch_log, LogEntry(t, "raised"))
          /\ url_queue' = Tail(url_queue)
    /\ kill_attempts' = kill_attempts + 1
    /\ session' \in {"killed", "open"}
    /\ pc' = "escaped"
    /\ UNCHANGED <<config, strings, documents, pages_crawled, successful_pages, failed_pages,
                   pages_by_depth, result, sleeps, profile_path, report>>

\* One iteration whose crawler.arun raises.
SeqFetchRaised ==
    /\ program = "sequential_deep_crawl" /\ pc = "loop" /\ LoopCond
    /\ ~Skipped(Head(url_queue))
    /\ LET t == Head(url_queue)
       IN /\ visited_urls' = visited_urls \cup {t.url}
          /\ fetch_log' = Append(fetch_log, LogEntry(t, "raised"))
          /\ url_queue' = Tail(url_queue)
          /\ SetAgg(process_result(PageResult(t.url, t.depth, FALSE, "exception"), CurAgg))
          /\ sleeps' = sleeps + (IF Sleeps(Tail(url_queue)) THEN 1 ELSE 0)
    /\ UNCHANGED <<config, strings, documents, lifecycle, pages_crawled, result, pc>>

\* Variant of Cleanup without the finally clause.
NoCleanup == UNCHANGED <<kill_attempts, session>>

\* finally: try: await crawler.crawler_strategy.kill_session(session_id)
\* except: pass -- a kill that fails leaves the tab open and is swallowed.
Cleanup ==
    /\ kill_attempts' = kill_attempts + 1
    /\ session' \in {"killed", "open"}

\* The while condition is false: leave the loop, save and summarise.
SeqFinish ==
    /\ program = "sequential_deep_crawl" /\ pc = "loop" /\ ~LoopCond
    /\ Cleanup
    /\ report' = TRUE
    /\ pc' = "done"
    /\ UNCHANGED <<config, strings, documents, locals, profile_path>>

\* An exception leaves the loop body between two iterations (the print or
\* the sleep of the delay, which run while url_queue is not empty): the
\* finally clause runs and the exception goes to the caller.
SeqEscape ==
    /\ program = "sequential_deep_crawl" /\ pc = "loop"
    /\ fetch_log # <<>> /\ url_queue # <<>>
    /\ Cleanup
    /\ pc' = "escaped"
    /\ UNCHANGED <<config, strings, documents, locals, profile_path, report>>

\* ------------------------------------ minimal_crawler.deep_crawl steps
\* normalized_url = f"{scheme}://{netloc}{path}" plus "?query" when the
\* query is non-empty: the fragment is dropped.
normalize(u) == Url(u.scheme, u.netloc, u.path, u.query, "")

\* not href or href.startswith('#') or href.startswith('javascript:')
MinIgnoredHref(h) ==
    \/ HrefIsEmpty(h)
    \/ h.valid /\ h.scheme = "" /\ h.netloc = "" /\ h.path = "" /\ h.query = ""
    \/ h.valid /\ h.scheme = "javascript"

\* The "for link in soup.find_all('a', href=True)" loop, from anchor i on;
\* an exception of urljoin ends the loop (inner except) and keeps the queue.
\* The extra navigation selectors run only when "clickup" is in base_domain,
\* which it is for none of Seeds.
RECURSIVE MinQueueLinks(_, _, _, _, _)
MinQueueLinks(links, i, q, unique_links, cur) ==
    IF i > Len(links) THEN q
    ELSE LET h == links[i].href
             parsed == urljoin(cur.url, h)
             normalized_url == normalize(parsed)
         IN IF MinIgnoredHref(h) THEN MinQueueLinks(links, i + 1, q, unique_links, cur)
            ELSE IF ~h.valid THEN q
            ELSE IF /\ netloc(parsed) = netloc(url)
                    /\ normalized_url \notin cur.visited
                    /\ normalized_url \notin unique_links
                 THEN MinQueueLinks(links, i + 1,
                                    Append(q, Task(normalized_url, cur.depth + 1, cur.n, i)),
                                    unique_links \cup {normalized_url}, cur)
            ELSE MinQueueLinks(links, i + 1, q, unique_links, cur)

\* Variant of MinSkip that puts the skipped task back at the end of the queue.
MinSkipRequeues ==
    /\ program = "deep_crawl" /\ pc = "loop" /\ LoopCond
    /\ Skipped(Head(url_queue))
    /\ url_queue' = Append(Tail(url_queue), Head(url_queue))
    /\ UNCHANGED <<config, strings, documents, lifecycle, visited_urls, pages_crawled, successful_pages,
                   failed_pages, pages_by_depth, result, fetch_log, sleeps, pc>>

\* One iteration that pops a task and hits "continue".
MinSkip ==
    /\ program = "deep_crawl" /\ pc = "loop" /\ LoopCond
    /\ Skipped(Head(url_queue))
    /\ url_queue' = Tail(url_queue)
    /\ UNCHANGED <<config, strings, documents, lifecycle, visited_urls, pages_crawled, successful_pages,
                   failed_pages, pages_by_depth, result, fetch_log, sleeps, pc>>

\* One iteration whose crawler.arun returns result.success: the page is
\* saved and its anchors are queued.
MinFetchOk ==
    /\ program = "deep_crawl" /\ pc = "loop" /\ LoopCond
    /\ ~Skipped(Head(url_queue))
    /\ \E r \in ResponsesFor(Head(url_queue), max_pages) :
        LET t == Head(url_queue)
            cur == [url |-> t.url, depth |-> t.depth, n |-> Len(fetch_log) + 1,
                    visited |-> visited_urls \cup {t.url}]
        IN /\ visited_urls' = visited_urls \cup {t.url}
           /\ pages_crawled' = pages_crawled + 1
           /\ result' = r
           /\ fetch_log' = Append(fetch_log, LogEntry(t, "ok"))
           /\ url_queue' = IF ExtractsLinks(t.depth)
                           THEN MinQueueLinks(r.links.internal \o r.links.external, 1,
                                              Tail(url_queue), {}, cur)
                           ELSE Tail(url_queue)
           /\ sleeps' = sleeps + (IF Sleeps(url_queue') THEN 1 ELSE 0)
    /\ UNCHANGED <<config, strings, documents, lifecycle, successful_pages, failed_pages, pages_by_depth, pc>>

\* Variant of MinFetchFailed that does not count a failed page.
MinFetchFailedUncounted ==
    /\ program = "deep_crawl" /\ pc = "loop" /\ LoopCond
    /\ ~Skipped(Head(url_queue))
    /\ \E outcome \in {"failed", "raised"} :
        LET t == Head(url_queue)
        IN /\ visited_urls' = visited_urls \cup {t.url}
           /\ result' = IF outcome = "failed" THEN NoResult ELSE result
           /\ fetch_log' = Append(fetch_log, LogEntry(t, outcome))
           /\ url_queue' = Tail(url_queue)
           /\ sleeps' = sleeps + (IF Sleeps(Tail(url_queue)) THEN 1 ELSE 0)
    /\ UNCHANGED <<config, strings, documents, lifecycle, pages_crawled, successful_pages, failed_pages,
                   pages_by_depth, pc>>

\* One iteration whose crawler.arun reports a failure or raises: printed only.
MinFetchFailed ==
    /\ program = "deep_crawl" /\ pc = "loop" /\ LoopCond
    /\ ~Skipped(Head(url_queue))
    /\ \E outcome \in {"failed", "raised"} :
        LET t == Head(url_queue)
        IN /\ visited_urls' = visited_urls \cup {t.url}
           /\ pages_crawled' = pages_crawled + 1
           /\ result' = IF outcome = "failed" THEN NoResult ELSE result
           /\ fetch_log' = Append(fetch_log, LogEntry(t, outcome))
           /\ url_queue' = Tail(url_queue)
           /\ sleeps' = sleeps + (IF Sleeps(Tail(url_queue)) THEN 1 ELSE 0)
    /\ UNCHANGED <<config, strings, documents, lifecycle, successful_pages, failed_pages, pages_by_depth, pc>>

\* The while condition is false: clean up and print the summary.
MinFinish ==
    /\ program = "deep_crawl" /\ pc = "loop" /\ ~LoopCond
    /\ Cleanup
    /\ report' = TRUE
    /\ pc' = "done"
    /\ UNCHANGED <<config, strings, documents, locals, profile_path>>

MinEscape ==
    /\ program = "deep_crawl" /\ pc = "loop"
    /\ fetch_log # <<>> /\ url_queue # <<>>
    /\ Cleanup
    /\ pc' = "escaped"
    /\ UNCHANGED <<config, strings, documents, locals, profile_path, report>>

Next ==
    \/ SeqStart \/ SeqSkip \/ SeqFetchOk \/ SeqFetchFailed \/ SeqFetchRaised
    \/ SeqFinish \/ SeqEscape
    \/ MinStart \/ MinSkip \/ MinFetchOk \/ MinFetchFailed \/ MinFinish \/ MinEscape

Spec == Init /\ [][Next]_vars

\* The event loop keeps running the coroutine and every await returns
\* (crawler.arun within its page_timeout, asyncio.sleep after the delay): a
\* step that can be taken is eventually taken.
\* Termination is checked on the runs without URL patterns, and with
\* keywords only where the strategy reads them (best-first): a pattern only
\* removes links from a page's list, and under bfs and dfs keywords only
\* change the score stored with a page.  Where Init varies the delay it is
\* set, so that every iteration that leaves a task in the frontier sleeps.
FairInit ==
    /\ Init /\ patterns = <<>> /\ (strategy = "best-first" \/ keywords = <<>>)
    /\ (delay = 1 \/ keywords # <<>>)

FairSpec == FairInit /\ [][Next]_vars /\ WF_vars(Next)

\* ======================================== URL normalization on strings
\* The normalization of minimal_crawler.py computed as the code computes
\* it, on strings: a string is a sequence of characters.  "h" stands for
\* the scheme http (in uses_relative and uses_netloc); every other run of
\* letters before a colon is a scheme in neither list (mailto, tel, ...).
Letters == {"h", "m"}
HrefChars == Letters \cup {":", "/", "?", "#", "["}

\* What urlsplit raises on a netloc with an unmatched bracket.
ValueError == <<"ValueError">>

Take(s, n) == SubSeq(s, 1, n)
Drop(s, n) == SubSeq(s, n + 1, Len(s))
Chars(s) == {s[i] : i \in 1..Len(s)}

\* s.find(c, start) for any c of cs, 1-based; 0 when there is none
Find(s, cs, start) ==
    LET hits == {i \in start..Len(s) : s[i] \in cs}
    IN IF hits = {} THEN 0 ELSE CHOOSE i \in hits : \A j \in hits : i <= j

uses_relative(scheme) == scheme \in {<<>>, <<"h">>}
uses_netloc(scheme) == scheme \in {<<>>, <<"h">>}

\* The position of the colon that ends a scheme of s; 0 when s has none
SchemeEnd(s) ==
    LET i == Find(s, {":"}, 1)
    IN IF i > 1 /\ (\A k \in 1..(i - 1) : s[k] \in Letters) THEN i ELSE 0

\* url.partition('?') of what is left of the fragment
SplitQuery(scheme, nl, r3, fragment) ==
    LET q == Find(r3, {"?"}, 1)
    IN [scheme |-> scheme, netloc |-> nl,
        path |-> IF q = 0 THEN r3 ELSE Take(r3, q - 1),
        query |-> IF q = 0 THEN <<>> ELSE Drop(r3, q),
        fragment |-> fragment,
        raises |-> "[" \in Chars(nl)]

\* url.partition('#') of what follows the netloc
SplitFragment(scheme, nl, r2) ==
    LET f == Find(r2, {"#"}, 1)
    IN SplitQuery(scheme, nl, IF f = 0 THEN r2 ELSE Take(r2, f - 1),
                  IF f = 0 THEN <<>> ELSE Drop(r2, f))

\* _splitnetloc of what follows the scheme
SplitNetloc(scheme, r1) ==
    LET hasNetloc == Len(r1) >= 2 /\ r1[1] = "/" /\ r1[2] = "/"
        delim == Find(r1, {"/", "?", "#"}, 3)
    IN SplitFragment(scheme,
                     IF ~hasNetloc THEN <<>>
                     ELSE IF delim = 0 THEN Drop(r1, 2) ELSE SubSeq(r1, 3, delim - 1),
                     IF ~hasNetloc THEN r1
                     ELSE IF delim = 0 THEN <<>> ELSE Drop(r1, delim - 1))

\* urllib.parse.urlsplit(s, default); raises stands for its ValueError
urlsplit(s, default) ==
    LET i == SchemeEnd(s)
    IN SplitNetloc(IF i > 0 THEN Take(s, i - 1) ELSE default,
                   IF i > 0 THEN Drop(s, i) ELSE s)

\* urllib.parse.urlunsplit
urlunsplit(scheme, nl, path, query, fragment) ==
    LET slashes == Len(path) >= 2 /\ path[1] = "/" /\ path[2] = "/"
        u1 == IF nl # <<>> \/ (scheme # <<>> /\ uses_netloc(scheme) /\ ~slashes)
              THEN <<"/", "/">> \o nl
                   \o (IF path # <<>> /\ path[1] # "/" THEN <<"/">> \o path ELSE path)
              ELSE path
        u2 == IF scheme # <<>> THEN scheme \o <<":">> \o u1 ELSE u1
        u3 == IF query # <<>> THEN u2 \o <<"?">> \o query ELSE u2
    IN IF fragment # <<>> THEN u3 \o <<"#">> \o fragment ELSE u3

\* s.split('/') and '/'.join(segments)
RECURSIVE Split(_)
Split(s) ==
    LET i == Find(s, {"/"}, 1)
    IN IF i = 0 THEN <<s>> ELSE <<Take(s, i - 1)>> \o Split(Drop(s, i))

RECURSIVE Join(_)
Join(segments) ==
    IF Len(segments) = 1 THEN segments[1]
    ELSE segments[1] \o <<"/">> \o Join(Tail(segments))

\* The path urljoin resolves a non-empty path to (the alphabet has no dot,
\* so no segment is "." or "..").
ResolvePath(bpath, path) ==
    LET bp == Split(bpath)
        base_parts == IF bp[Len(bp)] # <<>> THEN Take(bp, Len(bp) - 1) ELSE bp
        all == base_parts \o Split(path)
        segments == IF path[1] = "/" THEN Split(path)
                    ELSE <<all[1]>>
                         \o SelectSeq(SubSeq(all, 2, Len(all) - 1), LAMBDA seg : seg # <<>>)
                         \o <<all[Len(all)]>>
        joined == Join(segments)
    IN IF joined = <<>> THEN <<"/">> ELSE joined

\* urljoin once both URLs are split
JoinSplit(u, bs, us) ==
    IF bs.raises \/ us.raises THEN ValueError
    ELSE IF us.scheme # bs.scheme \/ ~uses_relative(us.scheme) THEN u
    ELSE IF uses_netloc(us.scheme) /\ us.netloc # <<>>
         THEN urlunsplit(us.scheme, us.netloc, us.path, us.query, us.fragment)
    ELSE LET nl == IF uses_netloc(us.scheme) THEN bs.netloc ELSE us.netloc
         IN IF us.path = <<>>
            THEN urlunsplit(us.scheme, nl, bs.path,
                            IF us.query = <<>> THEN bs.query ELSE us.query,
                            us.fragment)
            ELSE urlunsplit(us.scheme, nl, ResolvePath(bs.path, us.path),
                            us.query, us.fragment)

\* urljoin once the base is split: the href is split with the base's scheme
JoinBase(u, bs) == JoinSplit(u, bs, urlsplit(u, bs.scheme))

\* urllib.parse.urljoin(b, u) on strings
urljoin_str(b, u) ==
    IF b = <<>> THEN u
    ELSE IF u = <<>> THEN b
    ELSE JoinBase(u, urlsplit(b, <<>>))

\* normalized_url = f"{scheme}://{netloc}{path}" plus "?query" if query
Unparse(parsed) ==
    IF parsed.raises THEN ValueError
    ELSE parsed.scheme \o <<":", "/", "/">> \o parsed.netloc \o parsed.path
         \o (IF parsed.query # <<>> THEN <<"?">> \o parsed.query ELSE <<>>)

\* parsed = urlparse(absolute_url), then the f-string
Reparse(absolute_url) ==
    IF absolute_url = ValueError THEN ValueError
    ELSE Unparse(urlsplit(absolute_url, <<>>))

\* absolute_url = urljoin(current_url, href), then the above
normalize_str(b, u) == Reparse(urljoin_str(b, u))

\* The pages whose anchors are normalized: "h://m/" and "h://m/h?m".
Bases == {<<"h", ":", "/", "/", "m", "/">>,
          <<"h", ":", "/", "/", "m", "/", "h", "?", "m">>}

\* The hrefs that reach the normalization: not empty and not starting with
\* "#" (href.startswith('#') is skipped before).
Hrefs ==
    {u \in UNION {[1..k -> HrefChars] : k \in 1..MaxHrefLen} : u[1] # "#"}

NormInit ==
    /\ base \in Bases /\ href \in Hrefs /\ normalized = <<>>
    /\ program = "deep_crawl" /\ url = SeedUrl /\ profile_name = ""
    /\ strategy = "bfs" /\ max_depth = 0 /\ max_pages = 1
    /\ keywords = <<>> /\ patterns = <<>> /\ domain_restrict = TRUE
    /\ url_queue = <<>> /\ visited_urls = {} /\ pages_crawled = 0
    /\ successful_pages = <<>> /\ failed_pages = <<>> /\ pages_by_depth = <<>>
    /\ result = NoResult /\ fetch_log = <<>>
    /\ delay = 0 /\ sleeps = 0
    /\ profile_path = "unset" /\ session = "none" /\ kill_attempts = 0
    /\ report = FALSE
    /\ NoDocuments
    /\ pc = "normalize"

\* Normalize the href, then normalize what came out.
Normalize ==
    /\ pc = "normalize" /\ Len(normalized) < 2
    /\ IF normalized = <<>> THEN TRUE ELSE normalized[1] # ValueError
    /\ normalized' = Append(normalized,
                            normalize_str(base, IF normalized = <<>> THEN href
                                                ELSE normalized[1]))
    /\ UNCHANGED <<config, locals, lifecycle, documents, base, href, pc>>

NormSpec == NormInit /\ [][Normalize]_vars

\* ------------------------------------------------ SimpleSaudiCrawler.crawl
\* The hrefs of the anchors a search page can carry: two documents and one
\* link that is no document.
Anchors == {"/File/a", "/File/b", "/about"}

\* The search pages: the anchors in document order, the same one any number
\* of times.
SearchPages == UNION {[1..n -> Anchors] : n \in 0..MaxDocLinks}

\* re.compile(r'/File/[\w-]+') on an href.
file_pattern(h) == h \in {"/File/a", "/File/b"}

base_url == "https://qanoniah.com"

\* extract_document_links(html): the matching anchors in document order,
\* each joined to base_url, nothing removed for being there twice.
RECURSIVE extract_document_links(_)
extract_document_links(html) ==
    IF html = <<>> THEN <<>>
    ELSE (IF file_pattern(Head(html)) THEN <<<<base_url, Head(html)>>>> ELSE <<>>)
         \o extract_document_links(Tail(html))

Min(a, b) == IF a < b THEN a ELSE b

\* documents_to_process = min(len(document_links), max_documents)
documents_to_process == Min(Len(document_links), max_documents)

\* The document the loop of crawl is at: enumerate(..., 1) over the slice.
doc_number == Len(processed) + 1

SaudiInit ==
    /\ program = "crawl" /\ profile_name = "qanoniah"
    /\ max_documents \in 0..MaxDocumentsBound
    /\ document_links = <<>> /\ successful = 0 /\ processed = <<>>
    /\ url = SeedUrl /\ strategy = "bfs" /\ max_depth = 0 /\ max_pages = 1
    /\ keywords = <<>> /\ patterns = <<>> /\ domain_restrict = TRUE
    /\ url_queue = <<>> /\ visited_urls = {} /\ pages_crawled = 0
    /\ successful_pages = <<>> /\ failed_pages = <<>> /\ pages_by_depth = <<>>
    /\ result = NoResult /\ fetch_log = <<>>
    /\ delay = 0 /\ sleeps = 0
    /\ profile_path = "unset" /\ session = "none" /\ kill_attempts = 0
    /\ report = FALSE
    /\ base = <<>> /\ href = <<>> /\ normalized = <<>>
    /\ pc = "start"

\* get_browser_config: without the profile crawl returns at once.
CrawlConfig ==
    /\ program = "crawl" /\ pc = "start"
    /\ \E path \in ProfilePaths :
           /\ profile_path' = path
           /\ pc' = IF path = "" THEN "no_profile" ELSE "search"
    /\ UNCHANGED <<config, strings, documents, locals, session, kill_attempts, report>>

\* The search page loads: its document links are extracted and the count
\* starts at zero.
CrawlSearchOk ==
    /\ program = "crawl" /\ pc = "search"
    /\ \E html \in SearchPages : document_links' = extract_document_links(html)
    /\ successful' = 0
    /\ pc' = "documents"
    /\ UNCHANGED <<config, strings, locals, lifecycle, max_documents, processed>>

\* The search page does not load (result.success false), or loading it
\* raises into the except of crawl: no document is looked for.
CrawlSearchFailed ==
    /\ program = "crawl" /\ pc = "search"
    /\ pc' \in {"search_failed", "escaped"}
    /\ UNCHANGED <<config, strings, documents, locals, lifecycle>>

\* What one call of process_document comes to once its folder is made: the
\* page is saved (True), the fetch fails (False), or something raises inside
\* its try (False).
Outcomes == {"saved", "failed", "raised"}

Returns(outcome) == outcome = "saved"

\* One pass of the loop of crawl: process_document returns, the count goes
\* up on True, and crawl sleeps unless this was the last document.
ProcessDocument ==
    /\ program = "crawl" /\ pc = "documents" /\ doc_number <= documents_to_process
    /\ \E outcome \in Outcomes :
           /\ processed' = Append(processed, [url |-> document_links[doc_number],
                                              number |-> doc_number,
                                              outcome |-> outcome])
           /\ successful' = successful + (IF Returns(outcome) THEN 1 ELSE 0)
    /\ sleeps' = sleeps + (IF doc_number < documents_to_process THEN 1 ELSE 0)
    /\ UNCHANGED <<config, strings, lifecycle, document_links, max_documents, url_queue,
                   visited_urls, pages_crawled, successful_pages, failed_pages,
                   pages_by_depth, result, fetch_log, pc>>

\* process_document raises before its try (the folder of the document cannot
\* be made): the exception leaves the loop for the except of crawl.
ProcessDocumentRaises ==
    /\ program = "crawl" /\ pc = "documents" /\ doc_number <= documents_to_process
    /\ processed' = Append(processed, [url |-> document_links[doc_number],
                                       number |-> doc_number,
                                       outcome |-> "uncaught"])
    /\ pc' = "escaped"
    /\ UNCHANGED <<config, strings, locals, lifecycle, document_links, max_documents,
                   successful>>

\* The slice is through: crawl prints "Processed: successful/documents_to_process".
CrawlFinish ==
    /\ program = "crawl" /\ pc = "documents" /\ doc_number > documents_to_process
    /\ pc' = "done"
    /\ UNCHANGED <<config, strings, documents, locals, lifecycle>>

SaudiNext ==
    \/ CrawlConfig
    \/ CrawlSearchOk
    \/ CrawlSearchFailed
    \/ ProcessDocument
    \/ ProcessDocumentRaises
    \/ CrawlFinish

SaudiSpec == SaudiInit /\ [][SaudiNext]_vars

\* ================================================================ claims
Sequential == program = "sequential_deep_crawl"

LogIdx == 1..Len(fetch_log)

\* Every page result of the run as (url, depth): the two result lists of
\* sequential_deep_crawl; deep_crawl of minimal_crawler keeps no lists, its
\* results are the attempts themselves.
RecordedResults ==
    IF Sequential
    THEN [i \in 1..Len(successful_pages) |->
            [url |-> successful_pages[i].url, depth |-> successful_pages[i].depth]]
         \o [i \in 1..Len(failed_pages) |->
            [url |-> failed_pages[i].url, depth |-> failed_pages[i].depth]]
    ELSE [i \in LogIdx |-> [url |-> fetch_log[i].url, depth |-> fetch_log[i].depth]]

\* C1: the number of recorded successes plus recorded failures never exceeds
\* max_pages (the budget bounds attempted fetches, not only successful ones).
C1_RecordedWithinBudget == Len(RecordedResults) <= max_pages

\* C2: within one run the fetch collaborator is invoked at most once per URL,
\* and every URL it was invoked for is in the visited set.
C2_FetchedAtMostOnce ==
    /\ \A i, j \in LogIdx : i # j => fetch_log[i].url # fetch_log[j].url
    /\ \A i \in LogIdx : fetch_log[i].url \in visited_urls

\* C2 witness: the loop is about to pop a task whose URL has already been
\* fetched (a second copy of it sat in the frontier).
C2_Witness ==
    /\ pc = "loop" /\ LoopCond
    /\ \E k \in LogIdx : fetch_log[k].url = Head(url_queue).url

\* C3: in sequential_deep_crawl no URL appears more than once across
\* successful_pages and failed_pages together.
C3_NoUrlRecordedTwice ==
    Sequential =>
        \A i, j \in 1..Len(RecordedResults) :
            i # j => RecordedResults[i].url # RecordedResults[j].url

\* C4: every recorded page result, and every fetch, has depth <= max_depth.
C4_RecordedDepthWithinLimit ==
    /\ \A i \in 1..Len(RecordedResults) : RecordedResults[i].depth <= max_depth
    /\ \A d \in DOMAIN pages_by_depth : d <= max_depth
    /\ \A i \in LogIdx : fetch_log[i].depth <= max_depth

\* C4 witness: a page at depth max_depth >= 1 was fetched and offered links,
\* none of which was taken into the frontier.
C4_Witness ==
    /\ max_depth >= 1 /\ fetch_log # <<>>
    /\ fetch_log[Len(fetch_log)].depth = max_depth
    /\ fetch_log[Len(fetch_log)].outcome = "ok"
    /\ result.success /\ result.links.internal # <<>>
    /\ \A i \in 1..Len(url_queue) : url_queue[i].par # Len(fetch_log)
    /\ Len(RecordedResults) >= 2

C6_BfsDepthOrder ==
    strategy = "bfs" =>
        \A i, j \in LogIdx : i < j => fetch_log[i].depth <= fetch_log[j].depth

\* C6 witness: a bfs run of sequential_deep_crawl fetched the seed, two
\* pages of depth 1 and then a page of depth 2.
C6_Witness ==
    /\ Sequential /\ strategy = "bfs" /\ Len(fetch_log) = 4
    /\ fetch_log[2].depth = 1 /\ fetch_log[3].depth = 1 /\ fetch_log[4].depth = 2
    /\ fetch_log[4].par = 2

\* Two fetched depth-1 pages the seed listed in this order: a before b.
SeedSiblings(a, b) ==
    /\ fetch_log[a].depth = 1 /\ fetch_log[b].depth = 1
    /\ fetch_log[a].idx < fetch_log[b].idx

\* C7 as claimed: with dfs, when the seed lists A before B and A has a
\* depth-2 child, that child is fetched before B.
C7_FirstBranchFirst ==
    (Sequential /\ strategy = "dfs") =>
        \A a, b, c \in LogIdx :
            (SeedSiblings(a, b) /\ fetch_log[c].par = a) => c < b

\* C7 amended: with dfs, when the seed lists A before B, B is fetched before
\* A and so is every fetched child of B: the last-listed branch is descended
\* first.
C7_LastBranchFirst ==
    (Sequential /\ strategy = "dfs") =>
        \A a, b \in LogIdx :
            SeedSiblings(a, b) =>
                /\ b < a
                /\ \A c \in LogIdx : fetch_log[c].par = b => c < a

\* C7 witness: a dfs run fetched the seed, then B, then a child of B, then A.
C7_Witness ==
    /\ Sequential /\ strategy = "dfs" /\ Len(fetch_log) = 4
    /\ SeedSiblings(4, 2)
    /\ fetch_log[3].par = 2 /\ fetch_log[3].depth = 2

\* Case-insensitive "the anchor text contains at least one keyword".
TextHasKeyword(text) ==
    \E k \in 1..Len(keywords), w \in 1..Len(text) : Lower(text[w]) = Lower(keywords[k])

\* The tasks of queue q that fetch number n discovered, and the others.
IsNew(t, n) == t.par = n
OldTasks(q, n) == SelectSeq(q, LAMBDA t : ~IsNew(t, n))

\* C8: with best-first and keywords, each fetch takes the head of the
\* frontier, and of the links it queues those with a keyword in their text
\* land ahead of every task already in the frontier and the others behind
\* them; the tasks already there keep their order.
C8_BestFirstPlacement ==
    [][(Sequential /\ strategy = "best-first" /\ keywords # <<>>
        /\ Len(fetch_log') = Len(fetch_log) + 1)
       => LET n == Len(fetch_log')
              q == url_queue'
              isOld(i) == ~IsNew(q[i], n)
              hit(i) == TextHasKeyword(AllLinks(result')[q[i].idx].text)
          IN /\ fetch_log'[n].url = Head(url_queue).url
             /\ OldTasks(q, n) = Tail(url_queue)
             /\ \A i, j \in 1..Len(q) :
                   (~isOld(i) /\ isOld(j)) => IF hit(i) THEN i < j ELSE j < i
      ]_vars

\* C8 witness: the frontier holds a keyword link of the last fetched page at
\* its head, then an older task, then a keyword-free link of that page.
C8_Witness ==
    /\ Sequential /\ strategy = "best-first" /\ keywords # <<>>
    /\ Len(url_queue) = 3 /\ fetch_log # <<>>
    /\ IsNew(url_queue[1], Len(fetch_log))
    /\ ~IsNew(url_queue[2], Len(fetch_log))
    /\ IsNew(url_queue[3], Len(fetch_log))
    /\ TextHasKeyword(AllLinks(result)[url_queue[1].idx].text)
    /\ ~TextHasKeyword(AllLinks(result)[url_queue[3].idx].text)

\* C9: best-first without keywords queues, at every successful fetch,
\* exactly what bfs queues from the same state and response.
C9_NoKeywordsLikeBfs ==
    [][(Sequential /\ strategy = "best-first" /\ keywords = <<>>
        /\ Len(fetch_log') = Len(fetch_log) + 1
        /\ fetch_log'[Len(fetch_log')].outcome = "ok"
        /\ fetch_log'[Len(fetch_log')].depth < max_depth)
       => LET t == Head(url_queue)
              cur == [url |-> t.url, depth |-> t.depth, n |-> Len(fetch_log'),
                      visited |-> visited_urls']
          IN url_queue' = QueueLinks("bfs", AllLinks(result'), 1, Tail(url_queue), cur).queue
      ]_vars

TenResponse == Response(TRUE, TenLinks, <<>>)

\* The one-page scenario: max_pages = 1 and the seed, whose page lists ten
\* discoverable links, has been attempted.
OnePageScenario ==
    /\ max_pages = 1 /\ fetch_log # <<>>
    /\ fetch_log[1].outcome = "ok" => result = TenResponse

\* C10: with max_pages = 1 and a seed listing ten discoverable links the
\* seed is always attempted, and once it has been the loop can only exit,
\* with exactly one page result recorded.
C10_OnePageOneResult ==
    /\ (max_pages = 1 /\ pc = "done") => fetch_log # <<>>
    /\ OnePageScenario =>
          /\ ~LoopCond
          /\ Len(fetch_log) = 1
          /\ Len(RecordedResults) = 1

\* C10 witness: a finished dfs run with max_pages = 1 whose seed succeeded
\* and left its ten links in the frontier.
C10_Witness ==
    /\ Sequential /\ strategy = "dfs" /\ pc = "done" /\ OnePageScenario
    /\ fetch_log[1].outcome = "ok" /\ Len(url_queue) = 10

\* The five-link scenario after its first step: the seed page was fetched and
\* returned the five links.
FiveLinkRun ==
    /\ url = FiveLinkScenario.url /\ max_depth = FiveLinkScenario.max_depth
    /\ max_pages = FiveLinkScenario.max_pages
    /\ domain_restrict = FiveLinkScenario.domain_restrict
    /\ strategy = FiveLinkScenario.strategy /\ keywords = <<>> /\ patterns = <<>>
    /\ Len(fetch_log) = 1 /\ fetch_log[1].outcome = "ok" /\ result = FiveResponse

QueuedTasks == [i \in 1..Len(url_queue) |-> [url |-> url_queue[i].url, depth |-> url_queue[i].depth]]

\* C11: in the five-link scenario exactly two tasks are enqueued from the
\* seed page, http://example.com/a and http://example.com/b at depth 1; the
\* other-host, fragment-only and javascript links are not enqueued.
C11_TwoTasksEnqueued ==
    FiveLinkRun =>
        QueuedTasks = << [url |-> Url("http", "example.com", "/a", "", ""), depth |-> 1],
                         [url |-> Url("http", "example.com", "/b", "", ""), depth |-> 1] >>

\* The last crawler.arun invocation failed: success false, or an exception.
LastFetchFailed ==
    fetch_log # <<>> /\ fetch_log[Len(fetch_log)].outcome \in {"failed", "raised"}

\* One more iteration of the while loop: pop the head of the frontier.
NextIteration ==
    \/ SeqSkip \/ SeqFetchOk \/ SeqFetchFailed \/ SeqFetchRaised
    \/ MinSkip \/ MinFetchOk \/ MinFetchFailed

\* C12: a fetch failure never ends the run: the step that records it stays
\* in the loop, and whenever the last fetch failed while the frontier is
\* non-empty and the budget is not exhausted, the loop can pop the next task.
C12_FailureKeepsLooping ==
    /\ [][(Len(fetch_log') = Len(fetch_log) + 1 /\ LastFetchFailed') => pc' = "loop"]_vars
    /\ []((LastFetchFailed /\ pc = "loop" /\ LoopCond) => ENABLED NextIteration)
    /\ []((LastFetchFailed /\ pc = "done") => ~LoopCond)

\* C12 witness: a fetch failed and the loop went on to fetch another page.
C12_Witness ==
    /\ Len(fetch_log) >= 3
    /\ fetch_log[2].outcome \in {"failed", "raised"}
    /\ fetch_log[3].outcome = "ok"

\* A step of sequential_deep_crawl whose crawler.arun invocation failed.
SeqFailureStep ==
    Sequential /\ Len(fetch_log') = Len(fetch_log) + 1 /\ LastFetchFailed'

\* C13: a fetch failure in sequential_deep_crawl (reported or raised) appends
\* exactly one record to failed_pages, carrying the task's URL, its depth and
\* an error message; the frontier only loses the popped task; successful_pages
\* and pages_by_depth are unchanged by that step.
C13_OneFailureRecord ==
    [][SeqFailureStep =>
         LET t == Head(url_queue)
             n == Len(failed_pages')
         IN /\ n = Len(failed_pages) + 1
            /\ SubSeq(failed_pages', 1, n - 1) = failed_pages
            /\ failed_pages'[n].url = t.url
            /\ failed_pages'[n].depth = t.depth
            /\ failed_pages'[n].error \in {"reported", "exception"}
            /\ url_queue' = Tail(url_queue)
            /\ UNCHANGED <<successful_pages, pages_by_depth>>
      ]_vars

\* C13 witness: the last fetch of a sequential run failed at depth 1 while
\* other tasks wait in the frontier, and its failure record is the last one.
C13_Witness ==
    /\ Sequential /\ LastFetchFailed /\ url_queue # <<>> /\ failed_pages # <<>>
    /\ fetch_log[Len(fetch_log)].depth = 1
    /\ failed_pages[Len(failed_pages)].url = fetch_log[Len(fetch_log)].url
    /\ successful_pages # <<>>

\* A profile name was given and get_profile_path found no profile.
ProfileNotFound == profile_name # "" /\ profile_path = ""

\* C14: when the profile asked for is not found, deep_crawl has aborted: no
\* fetch was invoked, no session created, no page result recorded, nothing
\* saved or summarised, and nothing happens afterwards.
C14_NoProfileNoCrawl ==
    /\ [](ProfileNotFound =>
             /\ pc = "aborted"
             /\ fetch_log = <<>> /\ visited_urls = {}
             /\ session = "none" /\ kill_attempts = 0
             /\ Len(RecordedResults) = 0 /\ pages_by_depth = <<>>
             /\ ~report)
    /\ [][~ProfileNotFound]_vars

\* C14 witness: sequential_deep_crawl was asked for with a profile that does
\* not exist and deep_crawl has returned.
C14_Witness == Sequential /\ ProfileNotFound /\ pc = "aborted" /\ url = SeedUrl

\* A seed that is no absolute http URL.
MalformedSeed == ~Fetchable(url)

\* C15: with a malformed seed URL the run aborts as a whole: the seed is
\* never handed to crawler.arun and no failure record is made for it.
C15_MalformedSeedAborts ==
    (Sequential /\ MalformedSeed) => (fetch_log = <<>> /\ failed_pages = <<>>)

\* C16: kill_session has been attempted exactly once whenever the crawl loop
\* has been left (frontier exhausted, budget reached, or an exception leaving
\* the loop body) and never before; after a normal exit the results are
\* saved and summarised whether or not the release succeeded.
C16_SessionReleasedOnce ==
    /\ pc \in {"done", "escaped"} => kill_attempts = 1
    /\ pc \notin {"done", "escaped"} => kill_attempts = 0
    /\ pc = "done" => report /\ session \in {"killed", "open"}
    /\ pc = "escaped" => ~report

\* C16 witness: sequential_deep_crawl left its loop with the page budget
\* reached and tasks still queued, kill_session failed (the tab stays
\* open), and the results were saved all the same.
C16_Witness ==
    /\ Sequential /\ pc = "done" /\ session = "open" /\ kill_attempts = 1 /\ report
    /\ url_queue # <<>> /\ pages_crawled = max_pages

\* C17: the crawl loop terminates under every pattern of successes and
\* failures: a run in the loop eventually leaves it, and when it leaves it
\* normally the frontier is empty or the page budget is reached.
C17_LoopTerminates ==
    /\ (pc = "loop") ~> (pc \in {"done", "escaped"})
    /\ [](pc = "done" => ~LoopCond)

\* C17 witness: a finished sequential run that skipped a task (the fetches
\* queued more tasks than were fetched or left) and had a failed fetch.
C17_Witness ==
    /\ Sequential /\ pc = "done" /\ url_queue = <<>>
    /\ \E i \in LogIdx : fetch_log[i].outcome \in {"failed", "raised"}
    /\ Len(fetch_log) >= 3 /\ pages_crawled < max_pages

\* A profile was asked for and found: the authenticated session is in use.
ProfileInUse == profile_name # "" /\ profile_path = "path"

\* The result of fetch number i is in the list its outcome belongs to.
FetchRecorded(i) ==
    IF fetch_log[i].outcome = "ok"
    THEN \E j \in 1..Len(successful_pages) : successful_pages[j].url = fetch_log[i].url
    ELSE \E j \in 1..Len(failed_pages) : failed_pages[j].url = fetch_log[i].url

\* C18: with a profile in use deep_crawl of profile_crawler.py never runs
\* the library's stream or batch crawl, whatever the stream flag and the
\* strategy; in the sequential loop a step invokes crawler.arun at most once,
\* and whenever the next task can be popped every earlier fetch has returned
\* and has its result recorded.
C18_ProfileMeansSequential ==
    /\ [](Sequential =>
             /\ ProfileInUse => pc \in {"loop", "done", "escaped", "raised"}
             /\ pc \in {"loop", "done", "escaped"} => ProfileInUse
             /\ pc \in {"stream", "batch"} => profile_name = ""
             /\ \A i \in LogIdx : FetchRecorded(i))
    /\ [][Len(fetch_log') \in {Len(fetch_log), Len(fetch_log) + 1}]_vars

\* C18 witness: a dfs run with a profile is in its loop after three fetches,
\* one of them failed, all three recorded.
C18_Witness ==
    /\ Sequential /\ ProfileInUse /\ strategy = "dfs" /\ pc = "loop" /\ LoopCond
    /\ Len(fetch_log) = 3 /\ fetch_log[2].outcome = "failed"
    /\ \A i \in LogIdx : FetchRecorded(i)

\* The URLs of the entries a step adds at the end of sequence new (old is
\* the sequence before the step).
AddedUrls(old, new) == [i \in 1..(Len(new) - Len(old)) |-> new[Len(old) + i].url]

\* C19: in sequential mode page results are recorded in fetch order: every
\* step adds to successful_pages and failed_pages, in the order it records
\* them (process_result of the page first, that of the except clause after
\* it), exactly the URLs of the crawler.arun invocations it makes.
C19_RecordedInFetchOrder ==
    [][Sequential =>
         AddedUrls(successful_pages, successful_pages')
            \o AddedUrls(failed_pages, failed_pages')
         = AddedUrls(fetch_log, fetch_log')
      ]_vars

\* C20: URL normalization is idempotent: normalizing an already normalized
\* URL returns the same string.
C20_NormalizeIdempotent ==
    Len(normalized) = 2 => normalized[2] = normalized[1]

\* C21: in every state of the crawl loop every task in the frontier has
\* depth <= max_depth + 1.
C21_FrontierDepthBounded ==
    pc = "loop" => \A i \in 1..Len(url_queue) : url_queue[i].depth <= max_depth + 1

\* C21 witness: with max_depth >= 1 the frontier holds a discovered task at
\* the deepest level a link is ever queued at, found on a page one level up.
C21_Witness ==
    /\ pc = "loop" /\ max_depth >= 1
    /\ \E i \in 1..Len(url_queue) :
          /\ url_queue[i].par > 0
          /\ url_queue[i].depth = max_depth
          /\ fetch_log[url_queue[i].par].depth = max_depth - 1

\* C22: a discovered link is in the visited set from the moment it is
\* queued, and the frontier never holds two tasks with the same URL.
C22_FrontierUrlsDistinct ==
    /\ \A i \in 1..Len(url_queue) :
          url_queue[i].par > 0 => url_queue[i].url \in visited_urls
    /\ \A i, j \in 1..Len(url_queue) :
          i # j => url_queue[i].url # url_queue[j].url

\* C23 as stated: every queued task is popped exactly once before the run
\* ends, so a run that has ended has left no task in the frontier.
C23_NoTaskLeftUnpopped == pc = "done" => url_queue = <<>>

\* (par, idx) names a task: the fetch that found it and its place in the list.
TaskId(t) == <<t.par, t.idx>>

\* C23, amended: every iteration pops exactly the head of the frontier and
\* never puts a popped task back (what it adds are tasks found by the fetch
\* of that iteration), so no task is popped twice; and a run that ends with
\* budget left has popped every task it queued.  Tasks are left unpopped
\* only when the page budget ends the run.
C23_PoppedOnceUnlessBudgetEnds ==
    /\ [](\A i, j \in 1..Len(url_queue) :
            i # j => TaskId(url_queue[i]) # TaskId(url_queue[j]))
    /\ [](pc = "done" /\ pages_crawled < max_pages => url_queue = <<>>)
    /\ [][url_queue' # url_queue =>
            /\ url_queue # <<>>
            /\ IF fetch_log' = fetch_log
               THEN url_queue' = Tail(url_queue)
               ELSE /\ OldTasks(url_queue', Len(fetch_log')) = Tail(url_queue)
                    /\ \A i \in 1..Len(url_queue) :
                          url_queue[i].par < Len(fetch_log')]_vars

\* C23 witness: a run ended with budget left and an empty frontier after
\* it fetched the seed and a page the seed lists.
C23_Witness ==
    /\ pc = "done" /\ pages_crawled < max_pages /\ url_queue = <<>>
    /\ Len(fetch_log) = 2
    /\ fetch_log[1].outcome = "ok" /\ fetch_log[2].par = 1
    /\ result = Response(TRUE, <<>>, <<>>)
    /\ max_depth = 2 /\ Sequential /\ strategy = "bfs" /\ keywords = <<>>

\* The anchor text of the link that queued task t, for a task found by the
\* latest fetch (result is the response of that fetch).
TextOf(t) == AllLinks(result)[t.idx].text

\* C24: with best-first, two links of one page whose texts both hold a
\* keyword, or both hold none, stand in the frontier in the order the page
\* lists them, so the one listed first is fetched first.
C24_TiesKeepDiscoveryOrder ==
    (Sequential /\ strategy = "best-first" /\ keywords # <<>>) =>
        \A p, q \in 1..Len(url_queue) :
            (/\ p < q
             /\ IsNew(url_queue[p], Len(fetch_log)) /\ IsNew(url_queue[q], Len(fetch_log))
             /\ TextHasKeyword(TextOf(url_queue[p])) = TextHasKeyword(TextOf(url_queue[q])))
            => url_queue[p].idx < url_queue[q].idx

\* C25: every URL queued for a discovered link has its fragment stripped
\* (so hrefs that differ only in the fragment give one task URL).
C25_QueuedWithoutFragment ==
    \A i \in 1..Len(url_queue) : url_queue[i].par > 0 => url_queue[i].url.frag = ""

\* The latest fetch and the absolute URL of the i-th link of its page.
LastFetch == fetch_log[Len(fetch_log)]
AbsOf(i) == urljoin(LastFetch.url, AllLinks(result)[i].href)

\* Link i of the latest page reaches the pattern filter: the link loop got
\* to it, its href is not empty, and it passed the visited and domain tests.
ReachesPatternFilter(i) ==
    /\ \A k \in 1..i : AllLinks(result)[k].href.valid
    /\ ~HrefIsEmpty(AllLinks(result)[i].href)
    /\ AbsOf(i) \notin visited_urls
    /\ PassesDomain(AbsOf(i))

\* The strategies whose branch of the if/elif chain queues a link.
Queues == strategy \in {"bfs", "dfs"} \/ keywords # <<>>

\* C26: in sequential_deep_crawl, with patterns given every queued link has
\* an absolute URL that one of the patterns matches ("*" standing for any
\* substring, the match starting at the beginning of the URL); with no
\* patterns every link that reaches the pattern filter is queued.
C26_PatternFilter ==
    /\ [](Sequential /\ patterns # <<>> =>
            \A i \in 1..Len(url_queue) :
                url_queue[i].par > 0 =>
                    \E k \in 1..Len(patterns) :
                        ReMatch(patterns[k], UrlPieces(url_queue[i].url)))
    /\ [][(/\ Sequential /\ patterns = <<>> /\ Queues
           /\ fetch_log' # fetch_log
           /\ LastFetch'.outcome = "ok" /\ LastFetch'.depth < max_depth)
          => \A i \in 1..Len(AllLinks(result')) :
                ReachesPatternFilter(i)' =>
                    \E j \in 1..Len(url_queue') :
                        url_queue'[j].par = Len(fetch_log') /\ url_queue'[j].idx = i]_vars

\* C26 witness: with the pattern */a* a page listed /a and /b, both on the
\* seed's host and not visited: /a was queued and /b was not.
C26_Witness ==
    /\ Sequential /\ patterns = <<PatternA>> /\ Queues
    /\ fetch_log # <<>> /\ LastFetch.outcome = "ok" /\ LastFetch.depth < max_depth
    /\ result = Response(TRUE, <<LinkA, LinkB>>, <<>>)
    /\ ReachesPatternFilter(1) /\ ReachesPatternFilter(2)
    /\ \E j \in 1..Len(url_queue) :
          url_queue[j].par = Len(fetch_log) /\ url_queue[j].idx = 1
    /\ \A j \in 1..Len(url_queue) :
          ~(url_queue[j].par = Len(fetch_log) /\ url_queue[j].idx = 2)

\* The loop is about to pop a task that it will skip.
AboutToSkip == pc = "loop" /\ LoopCond /\ Skipped(Head(url_queue))

\* C27: an iteration that skips the popped task changes nothing but the
\* frontier, which loses its head: no fetch, no change of the visited set,
\* of the page counter or of the recorded results, and no sleep.
C27_SkipChangesFrontierOnly ==
    [][AboutToSkip /\ pc' = "loop" =>
          /\ url_queue' = Tail(url_queue)
          /\ UNCHANGED <<visited_urls, pages_crawled, successful_pages, failed_pages,
                         pages_by_depth, fetch_log, result, sleeps>>]_vars

\* C27 witness: the page /a listed /b twice; the first /b was fetched (the
\* fetch raised) and the second was popped and skipped, which emptied the
\* frontier and left everything else as the fetch of /b had left it.
C27_Witness ==
    /\ Sequential /\ pc = "loop" /\ delay > 0
    /\ Len(fetch_log) = 3 /\ LastFetch.outcome = "raised" /\ LastFetch.par = 2
    /\ result = Response(TRUE, <<LinkB, LinkB>>, <<>>)
    /\ url_queue = <<>>
    /\ pages_crawled = 2 /\ Len(successful_pages) = 2 /\ Len(failed_pages) = 1
    /\ sleeps = 3

\* C28: an iteration that fetched a page (whatever the outcome) sleeps once
\* if delay > 0 and the frontier is not empty once the page is processed,
\* and does not sleep otherwise; nothing else sleeps.
C28_SleepsIffDelayAndFrontier ==
    [][IF fetch_log' # fetch_log
       THEN sleeps' = sleeps + (IF delay > 0 /\ url_queue' # <<>> THEN 1 ELSE 0)
       ELSE sleeps' = sleeps]_vars

\* C28 witness: a run with a delay fetched two pages and slept once: after
\* the seed, when the frontier held a task, and not after the second page,
\* which left the frontier empty.
C28_Witness ==
    /\ delay > 0 /\ pc = "done" /\ Len(fetch_log) = 2 /\ sleeps = 1
    /\ url_queue = <<>> /\ pages_crawled < max_pages

\* The results process_result is applied to in the check of C29: a page at
\* any depth, fetched or failed.
SomeResults ==
    {PageResult(SeedUrl, d, ok, "reported") : d \in 0..MaxDepthBound, ok \in BOOLEAN}

\* The entries of pages_by_depth, each with the depth it is filed under.
Filed(p) == UNION {{<<d, i>> : i \in 1..Len(p[d])} : d \in DOMAIN p}

\* C29: in every state the aggregator can be in, and after one more call of
\* process_result from there: a result goes to exactly one of
\* successful_pages and failed_pages, by its success flag; pages_by_depth
\* holds as many entries as there are successes, each depth holding as many
\* as there are successes of that depth; a failure adds none.
C29_AggregationConsistent ==
    /\ Cardinality(Filed(pages_by_depth)) = Len(successful_pages)
    /\ \A d \in DOMAIN pages_by_depth :
          Len(pages_by_depth[d])
              = Cardinality({i \in 1..Len(successful_pages) : successful_pages[i].depth = d})
    /\ \A i \in 1..Len(successful_pages) :
          successful_pages[i].depth \in DOMAIN pages_by_depth
    /\ \A r \in SomeResults :
          LET a == process_result(r, CurAgg)
              p == pages_by_depth
              q == a.pages_by_depth
              e == [url |-> r.url, title |-> r.title, score |-> r.score]
          IN IF r.success
             THEN /\ a.successful_pages
                        = Append(successful_pages, [url |-> r.url, depth |-> r.depth])
                  /\ a.failed_pages = failed_pages
                  /\ DOMAIN q = DOMAIN p \cup {r.depth}
                  /\ \A d \in DOMAIN p : d # r.depth => q[d] = p[d]
                  /\ q[r.depth]
                        = Append(IF r.depth \in DOMAIN p THEN p[r.depth] ELSE <<>>, e)
             ELSE /\ a.successful_pages = successful_pages
                  /\ Len(a.failed_pages) = Len(failed_pages) + 1
                  /\ a.failed_pages[Len(a.failed_pages)].url = r.url
                  /\ q = p

\* C29 witness: process_result has filed two successes at different depths
\* and a failure.
C29_Witness ==
    /\ Len(successful_pages) = 2 /\ Len(failed_pages) = 1
    /\ DOMAIN pages_by_depth = {0, 1}
    /\ failed_pages[1].depth = 1

\* C30: in sequential_deep_crawl every task queued for a link was found on
\* a page that was fetched with success at a depth below max_depth, and its
\* depth is that page's depth plus one.
C30_LinksFromSuccessBelowMaxDepth ==
    Sequential =>
        \A i \in 1..Len(url_queue) :
            url_queue[i].par > 0 =>
                /\ fetch_log[url_queue[i].par].outcome = "ok"
                /\ fetch_log[url_queue[i].par].depth < max_depth
                /\ url_queue[i].depth = fetch_log[url_queue[i].par].depth + 1

\* C30 witness: a page of depth 1 queued a task of depth 2, a failed fetch
\* and a page at max_depth that lists two links queued nothing.
C30_Witness ==
    /\ Sequential /\ max_depth = 2 /\ Len(fetch_log) = 4
    /\ fetch_log[2].outcome = "ok" /\ fetch_log[2].depth = 1
    /\ fetch_log[3].outcome = "failed"
    /\ LastFetch.outcome = "ok" /\ LastFetch.depth = 2
    /\ result = Response(TRUE, <<LinkA, LinkB>>, <<>>)
    /\ \E i \in 1..Len(url_queue) : url_queue[i].par = 2 /\ url_queue[i].depth = 2
    /\ \A i \in 1..Len(url_queue) : url_queue[i].par \notin {3, 4}

\* The tasks of the frontier that the latest fetch queued.
NewestTasks ==
    {i \in 1..Len(url_queue) : fetch_log # <<>> /\ IsNew(url_queue[i], Len(fetch_log))}

\* C31: in sequential_deep_crawl with dfs, once a fetch has queued links
\* the head of the frontier is the last of them and will not be skipped,
\* and the next fetch takes that link, ahead of every older task.
C31_DfsDescendsFirst ==
    /\ []((Sequential /\ strategy = "dfs" /\ pc = "loop" /\ NewestTasks # {}) =>
            /\ 1 \in NewestTasks
            /\ ~Skipped(Head(url_queue))
            /\ LastFetch.outcome = "ok" /\ LastFetch.depth < max_depth
            /\ \A i \in NewestTasks : url_queue[i].idx <= Head(url_queue).idx)
    /\ [][(Sequential /\ strategy = "dfs" /\ NewestTasks # {} /\ fetch_log' # fetch_log) =>
            /\ LastFetch'.par = Len(fetch_log)
            /\ LastFetch'.idx = Head(url_queue).idx
            /\ \A i \in NewestTasks : url_queue[i].idx <= LastFetch'.idx]_vars

\* C31 witness: a dfs run fetched the seed, a page B the seed lists and
\* then a link of B, while another link of the seed still waits.
C31_Witness ==
    /\ Sequential /\ strategy = "dfs" /\ pc = "loop" /\ Len(fetch_log) = 3
    /\ fetch_log[2].par = 1 /\ fetch_log[2].outcome = "ok"
    /\ fetch_log[3].par = 2
    /\ \E i \in 1..Len(url_queue) : url_queue[i].par = 1

\* C32: the visited set is exactly the set of URLs crawler.arun was invoked
\* for, one URL per invocation; it only grows; and in deep_crawl of
\* minimal_crawler.py pages_crawled is its size.
C32_VisitedIsFetched ==
    /\ [](/\ visited_urls = {fetch_log[i].url : i \in LogIdx}
          /\ Cardinality(visited_urls) = Len(fetch_log)
          /\ (program = "deep_crawl" => pages_crawled = Cardinality(visited_urls)))
    /\ [][visited_urls \subseteq visited_urls']_vars

\* C32 witness: deep_crawl of minimal_crawler.py invoked three fetches, one
\* of which failed, and is about to pop a task whose URL is visited.
C32_Witness ==
    /\ program = "deep_crawl" /\ Len(fetch_log) = 3 /\ pages_crawled = 3
    /\ \E i \in LogIdx : fetch_log[i].outcome # "ok"
    /\ Cardinality(visited_urls) = 3
    /\ pc = "loop" /\ LoopCond /\ Head(url_queue).url \in visited_urls

\* C33: in sequential_deep_crawl pages_crawled equals the number of
\* successful pages and is at most max_pages, and a fetch that fails or
\* raises leaves the counter as it was.
C33_CounterIsSuccesses ==
    /\ [](Sequential =>
            /\ pages_crawled = Len(successful_pages)
            /\ pages_crawled <= max_pages)
    /\ [][(Sequential /\ fetch_log' # fetch_log /\ LastFetch'.outcome # "ok") =>
            /\ pages_crawled' = pages_crawled
            /\ Len(failed_pages') = Len(failed_pages) + 1]_vars

\* C33 witness: the budget is used up by successes while more fetches than
\* max_pages were made, the others having failed.
C33_Witness ==
    /\ Sequential /\ pages_crawled = max_pages /\ max_pages >= 2
    /\ Len(successful_pages) = max_pages
    /\ Len(fetch_log) > max_pages /\ failed_pages # <<>>
    /\ \E i \in LogIdx : fetch_log[i].outcome = "failed"

\* C34: the seed goes into the frontier unfiltered and is the first URL
\* fetched, at depth 0, whatever the patterns: the loop starts with the seed
\* task alone, the first fetch is the seed's, and no run finishes without it.
C34_SeedFetchedFirst ==
    /\ (pc = "loop" /\ fetch_log = <<>>) => url_queue = <<Task(url, 0, 0, 0)>>
    /\ fetch_log # <<>> =>
          fetch_log[1].url = url /\ fetch_log[1].depth = 0 /\ fetch_log[1].par = 0
    /\ pc = "done" => fetch_log # <<>>

\* C34 witness: with the pattern */a*, which the seed URL does not match,
\* the seed was fetched first and its link /a after it.
C34_Witness ==
    /\ Sequential /\ patterns = <<PatternA>> /\ ~MatchesPattern(patterns, url)
    /\ domain_restrict
    /\ Len(fetch_log) = 2 /\ fetch_log[1].url = url /\ fetch_log[1].outcome = "ok"
    /\ fetch_log[2].par = 1

\* The run of crawl is over: the summary is printed, or an exception reached
\* the except of crawl.
CrawlOver == pc \in {"done", "escaped"}

\* C35: in SimpleSaudiCrawler.crawl with max_documents >= 0, the documents
\* processed are the first min(number of extracted links, max_documents)
\* links in extraction order, one call at a time; when the run is over all of
\* them have been processed, whatever a call failed or raised; and the
\* success count never exceeds the number processed.
C35_AllDocumentsProcessed ==
    program = "crawl" =>
        /\ \A i \in 1..Len(processed) :
               processed[i].number = i /\ processed[i].url = document_links[i]
        /\ Len(processed) <= documents_to_process
        /\ successful <= Len(processed)
        /\ CrawlOver => Len(processed) = documents_to_process

\* The part of C35 that the code keeps: order, the upper bound, the count,
\* and every document processed when the summary is printed.
C35_UnlessFolderRaises ==
    program = "crawl" =>
        /\ \A i \in 1..Len(processed) :
               processed[i].number = i /\ processed[i].url = document_links[i]
        /\ Len(processed) <= documents_to_process
        /\ successful = Cardinality({i \in 1..Len(processed) : processed[i].outcome = "saved"})
        /\ pc = "done" => Len(processed) = documents_to_process

\* Two documents to process, the first raises before its try, the second is
\* never processed.
C35_Stopped ==
    /\ program = "crawl" /\ pc = "escaped" /\ documents_to_process >= 2
    /\ Len(processed) = 1 /\ processed[1].outcome = "uncaught"

\* A document whose fetch fails or raises inside the try is followed by the
\* next one.
C35_Continues ==
    /\ program = "crawl" /\ pc = "done" /\ Len(processed) >= 2
    /\ processed[1].outcome \in {"failed", "raised"}

====
